---------------------------- MODULE Spec2Model ----------------------------
(***************************************************************************)
(* GaussianDiffusion.inference (paddlespeech/t2s/modules/diffusion.py):    *)
(* the reverse (denoising) loop with its scheduler lookup, the strength    *)
(* based truncation of the timestep sequence, the denoiser's shape         *)
(* assertion and the progress callback.                                    *)
(*                                                                         *)
(* Tensors are symbolic: a sample is the record of how it was produced.    *)
(* A timestep is written as its 0-based position in scheduler.timesteps.   *)
(* strength is written <<num, den>> and is the Python float nearest to     *)
(* num / den (the literal 0.58 is <<29, 50>>, and so is 580 / 1000); the   *)
(* product num_inference_steps * strength is computed as Python computes   *)
(* it, in IEEE-754 double precision, bit by bit, before int() cuts it.     *)
(***************************************************************************)
EXTENDS Integers, Sequences, FiniteSets

\* ------------------------------------------------------------------ bounds

\* inference calls made one after the other on one GaussianDiffusion object
MaxCalls == 2
\* callback_steps is drawn from 1..MaxCallbackSteps
MaxCallbackSteps == 3
\* trailing dimension (length T) of noise; cond has this length or one more
NoiseLen == 2

\* ---------------------------------------------------------------- helpers

\* Python's None / Optional: <<>> is None, <<v>> or <<num, den>> a value
None == <<>>

Min(a, b) == IF a <= b THEN a ELSE b

Max(a, b) == IF a >= b THEN a ELSE b

Abs(a) == IF a >= 0 THEN a ELSE -a

Sign(a) == IF a > 0 THEN 1 ELSE IF a < 0 THEN -1 ELSE 0

\* 2 ** k for k >= 0
RECURSIVE Pow2(_)
Pow2(k) == IF k = 0 THEN 1 ELSE 2 * Pow2(k - 1)

\* ------------------------------------------------------------ Python floats

\* the significant bits of a Python float (IEEE-754 double precision)
Precision == 53

\* the binary digits of k >= 0, the most significant first; <<>> for 0
RECURSIVE IntBits(_)
IntBits(k) == IF k = 0 THEN <<>> ELSE Append(IntBits(k \div 2), k % 2)

\* the number that the binary digits write
RECURSIVE BitsInt(_)
BitsInt(bits) ==
    IF bits = <<>> THEN 0
    ELSE 2 * BitsInt(SubSeq(bits, 1, Len(bits) - 1)) + bits[Len(bits)]

\* bits + 1, one digit longer when every digit was 1
RECURSIVE IncBits(_)
IncBits(bits) ==
    IF bits = <<>> THEN <<1>>
    ELSE IF bits[Len(bits)] = 0
         THEN SubSeq(bits, 1, Len(bits) - 1) \o <<1>>
         ELSE IncBits(SubSeq(bits, 1, Len(bits) - 1)) \o <<0>>

\* bits * n + carry for n >= 1
RECURSIVE MulBits(_, _, _)
MulBits(bits, n, carry) ==
    IF bits = <<>> THEN IntBits(carry)
    ELSE LET t == bits[Len(bits)] * n + carry
         IN  IF t % 2 = 0
             THEN MulBits(SubSeq(bits, 1, Len(bits) - 1), n, t \div 2)
                      \o <<0>>
             ELSE MulBits(SubSeq(bits, 1, Len(bits) - 1), n, t \div 2)
                      \o <<1>>

\* the first k binary digits of r / q after the point, for 0 <= r < q
RECURSIVE FracBits(_, _, _)
FracBits(r, q, k) ==
    IF k = 0 THEN <<>>
    ELSE IF 2 * r >= q THEN <<1>> \o FracBits(2 * r - q, q, k - 1)
         ELSE <<0>> \o FracBits(2 * r, q, k - 1)

\* what is left of r / q after its first k binary digits: 0 when they are all
RECURSIVE FracRest(_, _, _)
FracRest(r, q, k) ==
    IF k = 0 THEN r
    ELSE IF 2 * r >= q THEN FracRest(2 * r - q, q, k - 1)
         ELSE FracRest(2 * r, q, k - 1)

\* e with 2 ** e <= p / q < 2 ** (e + 1), for p, q > 0
RECURSIVE Exponent(_, _)
Exponent(p, q) ==
    IF p >= 2 * q THEN Exponent(p, 2 * q) + 1
    ELSE IF p < q THEN Exponent(2 * p, q) - 1
    ELSE 0

\* 0.0
FloatZero == [sign |-> 0, bits |-> <<>>, exp |-> 0]

\* round to nearest, ties to even: bits (the first is 1, of weight 2 ** exp)
\* cut to Precision digits, and one added to them when the digits cut off are
\* more than half of the last digit kept, or half of it and that digit is 1
RoundToFloat(sign, bits, exp) ==
    LET kept == SubSeq(bits, 1, Precision)
        up   == /\ Len(bits) > Precision
                /\ bits[Precision + 1] = 1
                /\ \/ kept[Precision] = 1
                   \/ \E k \in (Precision + 2)..Len(bits) : bits[k] = 1
        inc  == IncBits(kept)
    IN  IF ~up THEN [sign |-> sign, bits |-> kept, exp |-> exp]
        ELSE IF Len(inc) > Precision
             THEN [sign |-> sign, bits |-> SubSeq(inc, 1, Precision),
                   exp |-> exp + 1]
             ELSE [sign |-> sign, bits |-> inc, exp |-> exp]

\* the float num / den of two ints, and the float a decimal literal of that
\* value stands for: the double nearest to the quotient
Float(num, den) ==
    IF num = 0 THEN FloatZero
    ELSE LET e  == Exponent(Abs(num), den)
             p  == Abs(num) * Pow2(Max(-e, 0))
             q  == den * Pow2(Max(e, 0))
             rest == IF FracRest(p - q, q, Precision) = 0 THEN 0 ELSE 1
         IN  RoundToFloat(Sign(num),
                          <<1>> \o FracBits(p - q, q, Precision) \o <<rest>>,
                          e)

\* n * f for an int n and a float f: the double nearest to the product
FloatTimes(n, f) ==
    IF n = 0 \/ f.sign = 0 THEN FloatZero
    ELSE LET product == MulBits(f.bits, Abs(n), 0)
         IN  RoundToFloat(Sign(n) * f.sign, product,
                          f.exp + (Len(product) - Precision))

\* int(f): truncation toward zero
PyInt(f) ==
    IF f.sign = 0 \/ f.exp < 0 THEN 0
    ELSE f.sign * BitsInt(SubSeq(f.bits, 1, f.exp + 1))

\* seq[start:] for start >= 0
SliceFrom(seq, start) ==
    IF start >= Len(seq) THEN <<>> ELSE SubSeq(seq, start + 1, Len(seq))

\* seq[:1]
SliceFirst(seq) ==
    IF Len(seq) = 0 THEN <<>> ELSE <<seq[1]>>

\* range(n) as a sequence: <<0, 1, ..., n-1>>
Range(n) == [k \in 1..n |-> k - 1]

\* -------------------------------------------------- ppdiffusers.schedulers

UpperCase == <<"D", "H", "M", "N", "P", "S">>

LowerCase == <<"d", "h", "m", "n", "p", "s">>

\* str.lower() on one character (of the alphabet the names below use)
LowerChar(c) ==
    IF \E k \in 1..Len(UpperCase) : UpperCase[k] = c
    THEN LowerCase[CHOOSE k \in 1..Len(UpperCase) : UpperCase[k] = c]
    ELSE c

\* clsname.lower()
Lower(name) == [k \in 1..Len(name) |-> LowerChar(name[k])]

DDPMScheduler == <<"D","D","P","M","S","c","h","e","d","u","l","e","r">>

HeunDiscreteScheduler ==
    <<"H","e","u","n","D","i","s","c","r","e","t","e",
      "S","c","h","e","d","u","l","e","r">>

PNDMScheduler == <<"P","N","D","M","S","c","h","e","d","u","l","e","r">>

SchedulerMixin == <<"S","c","h","e","d","u","l","e","r","M","i","x","i","n">>

\* dir(ppdiffusers.schedulers), sorted as dir() sorts
SchedulersDir ==
    <<DDPMScheduler, HeunDiscreteScheduler, PNDMScheduler, SchedulerMixin>>

\* the literal "scheduler" of line 406
SchedulerSuffix == <<"s","c","h","e","d","u","l","e","r">>

\* variant: DDPM stands in for a name that is not found
LookupSchedulerDefault(scheduler_type) ==
    LET hits == {k \in 1..Len(SchedulersDir) :
                    Lower(SchedulersDir[k]) = scheduler_type \o SchedulerSuffix}
    IN  IF hits = {} THEN <<DDPMScheduler>>
        ELSE <<SchedulersDir[CHOOSE k \in hits : \A j \in hits : k <= j]>>

\* lines 404-408: the first name of dir() whose lower-case form is
\* scheduler_type + "scheduler"; None when there is none
LookupScheduler(scheduler_type) ==
    LET hits == {k \in 1..Len(SchedulersDir) :
                    Lower(SchedulersDir[k]) = scheduler_type \o SchedulerSuffix}
    IN  IF hits = {} THEN None
        ELSE <<SchedulersDir[CHOOSE k \in hits : \A j \in hits : k <= j]>>

\* scheduler.order
SchedulerOrder(cls) ==
    IF cls = HeunDiscreteScheduler THEN 2 ELSE 1

\* len(scheduler.timesteps) after scheduler.set_timesteps(n)
\*   DDPM: n entries (n divides num_train_timesteps)
\*   PNDM: 12 Runge-Kutta entries and n - 3 linear multistep entries (n >= 4)
\*   Heun: the first entry once, every other entry twice
SchedulerLen(cls, n) ==
    IF cls = PNDMScheduler THEN 12 + (n - 3)
    ELSE IF cls = HeunDiscreteScheduler THEN 2 * n - 1
    ELSE n

\* scheduler_cls(num_train_timesteps=..., beta_start=..., beta_end=...,
\* beta_schedule=...): the scheduler object before set_timesteps
NewScheduler(cls, num_train_timesteps, beta_start, beta_end, beta_schedule) ==
    [cls |-> cls, order |-> SchedulerOrder(cls),
     num_train_timesteps |-> num_train_timesteps,
     beta_start |-> beta_start, beta_end |-> beta_end,
     beta_schedule |-> beta_schedule,
     timesteps |-> <<>>, set_calls |-> 0, step_calls |-> 0]

\* scheduler_cls = None, line 404: no scheduler built
NoScheduler ==
    [cls |-> None, order |-> 1, num_train_timesteps |-> 0,
     beta_start |-> "", beta_end |-> "", beta_schedule |-> "",
     timesteps |-> <<>>, set_calls |-> 0, step_calls |-> 0]

\* scheduler.set_timesteps(n): the descending sequence, every entry written
\* as its position, and the history of the steps cleared
SetTimesteps(sched, n) ==
    [sched EXCEPT !.timesteps = Range(SchedulerLen(sched.cls, n)),
                  !.set_calls = @ + 1,
                  !.step_calls = 0]


\* ------------------------------------------------------------- the tensors

\* noise, the tensor the caller passes
Noise == [init |-> "noise", at |-> <<>>, scaled |-> 0, stepped |-> 0]

\* scheduler.add_noise(ref_x, noise, ts): ref_x mixed with noise at the
\* timesteps ts (here timesteps[:1], tiled over the batch)
AddNoise(ts) == [init |-> "add_noise", at |-> ts, scaled |-> 0, stepped |-> 0]

\* scheduler.scale_model_input(sample, t): the identity for DDPM and PNDM,
\* a rescaling for Heun
ScaleModelInput(sched, sample) ==
    IF sched.cls = HeunDiscreteScheduler
    THEN [sample EXCEPT !.scaled = @ + 1]
    ELSE sample

\* scheduler.step(noise_pred, t, sample).prev_sample
PrevSample(sample) == [sample EXCEPT !.stepped = @ + 1]

\* variant: a longer cond is let through
DenoiserShapesAtLeast(cond_len, x_len) == cond_len >= x_len

\* line 148, assert c.shape[-1] == x.shape[-1]: TRUE when it passes
DenoiserShapesAgree(cond_len, x_len) == cond_len = x_len

\* ------------------------------------------------- the strength truncation

\* variant: only the lower end of the range is checked
StrengthUnusableBelow(strength) ==
    \/ strength = None
    \/ (strength # None /\ strength[1] < 0)

\* line 427: strength is None or strength < 0. or strength > 1.; rounding to
\* the nearest float keeps a fraction on its side of 0. and of 1.
StrengthUnusable(strength) ==
    \/ strength = None
    \/ (strength # None /\ strength[1] < 0)
    \/ (strength # None /\ strength[1] > strength[2])

\* lines 427-430: the local strength after the fallback
StrengthInEffect(strength, slf) ==
    IF StrengthUnusable(strength)
    THEN IF slf.num_max_timesteps # None
         THEN <<slf.num_max_timesteps[1], slf.num_train_timesteps>>
         ELSE None
    ELSE strength

\* variant: ref_x is not asked for
WarmStartAnyway(ref_x, strength) == strength # None

\* lines 425 and 431: the truncation and the warm start happen only with a
\* ref_x and a strength in effect
WarmStart(ref_x, strength) == ref_x /\ strength # None

\* variant: the quotient of exact arithmetic instead of the float product
InitTimestepExact(n, strength) ==
    Min((n * strength[1]) \div strength[2], n)

\* lines 433-434: min(int(num_inference_steps * strength), num_inference_steps)
InitTimestep(n, strength) ==
    Min(PyInt(FloatTimes(n, Float(strength[1], strength[2]))), n)

\* variant: one timestep is always kept
TStartKeepOne(n, init_timestep) == Min(Max(n - init_timestep, 0), n - 1)

\* line 435: max(num_inference_steps - init_timestep, 0)
TStart(n, init_timestep) == Max(n - init_timestep, 0)

\* variant: one warm-up step too few
NumWarmupStepsShort(len_timesteps, n, order) == len_timesteps - n * order - 1

\* lines 443-444
NumWarmupSteps(len_timesteps, n, order) == len_timesteps - n * order

\* variant: the last index is no boundary of its own
StepBoundaryNoLast(i, len_timesteps, num_warmup_steps, order) ==
    (i + 1) > num_warmup_steps /\ (i + 1) % order = 0

\* variant: i itself, not i + 1, compared with the warm-up
StepBoundaryLate(i, len_timesteps, num_warmup_steps, order) ==
    \/ i = len_timesteps - 1
    \/ (i > num_warmup_steps /\ (i + 1) % order = 0)

\* lines 456-457: i is the last index, or past the warm-up and on a multiple
\* of the scheduler's order
StepBoundary(i, len_timesteps, num_warmup_steps, order) ==
    \/ i = len_timesteps - 1
    \/ ((i + 1) > num_warmup_steps /\ (i + 1) % order = 0)

\* line 458: callback is not None and i % callback_steps == 0
CallbackDue(callback, i, callback_steps) ==
    callback /\ i % callback_steps = 0

\* --------------------------------------------------------------- the state

VARIABLES
    self,   \* the GaussianDiffusion object: what __init__ stored
    calls,  \* inference calls started so far on self
    args,   \* the arguments of the latest inference call
    run     \* the latest inference call: its position, locals and effects

vars == <<self, calls, args, run>>

\* the defaults of __init__, lines 299-303; the two floats as their literals
DefaultNumTrainTimesteps == 1000

DefaultBetaStart == "0.0001"

DefaultBetaEnd == "0.02"

DefaultBetaSchedule == "squaredcos_cap_v2"

\* GaussianDiffusion.__init__, lines 306-317
NewGaussianDiffusion(num_train_timesteps, beta_start, beta_end, beta_schedule, num_max_timesteps) ==
    [num_train_timesteps |-> num_train_timesteps,
     beta_start          |-> beta_start,
     beta_end            |-> beta_end,
     beta_schedule       |-> beta_schedule,
     noise_scheduler     |-> NewScheduler(DDPMScheduler, num_train_timesteps,
                                          beta_start, beta_end, beta_schedule),
     num_max_timesteps   |-> num_max_timesteps]

\* no call made yet
NoArgs ==
    [num_inference_steps |-> 0, strength |-> None, scheduler_type |-> <<>>,
     ref_x |-> FALSE, callback |-> FALSE, callback_steps |-> 1,
     noise_len |-> NoiseLen, cond_len |-> NoiseLen]

\* the locals of inference before its first line, and nothing done yet
IdleRun ==
    [pc                  |-> "idle",
     error               |-> "",
     scheduler           |-> NoScheduler,
     strength            |-> None,
     num_inference_steps |-> 0,
     init_timestep       |-> None,
     t_start             |-> None,
     timesteps           |-> <<>>,
     noisy_input         |-> Noise,
     denoised_output     |-> Noise,
     num_warmup_steps    |-> 0,
     i                   |-> 0,
     add_noise_calls     |-> 0,
     scale_calls         |-> 0,
     denoiser_calls      |-> 0,
     callbacks           |-> <<>>,
     ret                 |-> None]

\* ------------------------------------------------------ inference, by parts

\* lines 404-420: the lookup, ValueError for an unknown scheduler_type, else
\* the scheduler built from self's parameters and set_timesteps on it
EnterRun(a, slf) ==
    LET scheduler_cls == LookupScheduler(a.scheduler_type)
    IN  IF scheduler_cls = None
        THEN [IdleRun EXCEPT !.pc = "raised", !.error = "ValueError",
                             !.strength = a.strength,
                             !.num_inference_steps = a.num_inference_steps]
        ELSE [IdleRun EXCEPT
                !.pc = "prepare",
                !.strength = a.strength,
                !.num_inference_steps = a.num_inference_steps,
                !.scheduler =
                    SetTimesteps(NewScheduler(scheduler_cls[1],
                                              slf.num_train_timesteps,
                                              slf.beta_start, slf.beta_end,
                                              slf.beta_schedule),
                                 a.num_inference_steps)]

\* variant: the scheduler of forward, self.noise_scheduler, is the one used
SelfAfterEnterShared(slf, a) ==
    [slf EXCEPT !.noise_scheduler =
                    SetTimesteps(slf.noise_scheduler, a.num_inference_steps)]

\* lines 413-420 on self: its parameters are read for the scheduler of this
\* call; self.noise_scheduler, the scheduler of forward, is not the one used
SelfAfterEnter(slf, a) == slf

\* lines 422-444: the first noisy input, the timesteps to run and the warm-up
PrepareRun(a, slf, r) ==
    LET strength  == IF a.ref_x THEN StrengthInEffect(a.strength, slf)
                     ELSE a.strength
        truncate  == WarmStart(a.ref_x, strength)
        n         == a.num_inference_steps
        init_timestep == InitTimestep(n, strength)
        t_start   == TStart(n, init_timestep)
        timesteps == IF truncate
                     THEN SliceFrom(r.scheduler.timesteps, t_start)
                     ELSE r.scheduler.timesteps
        steps     == IF truncate THEN n - t_start ELSE n
        noisy_input == IF truncate THEN AddNoise(SliceFirst(timesteps))
                       ELSE Noise
    IN  [r EXCEPT
           !.pc = "loop",
           !.strength = strength,
           !.init_timestep = IF truncate THEN <<init_timestep>> ELSE None,
           !.t_start = IF truncate THEN <<t_start>> ELSE None,
           !.timesteps = timesteps,
           !.num_inference_steps = steps,
           !.noisy_input = noisy_input,
           !.add_noise_calls = IF truncate THEN 1 ELSE 0,
           !.denoised_output = noisy_input,
           !.num_warmup_steps =
               NumWarmupSteps(Len(timesteps), steps, r.scheduler.order),
           !.i = 0]

\* lines 445-459, one iteration of the loop: r.i is the index i of it
IterateRun(a, r) ==
    LET t == r.timesteps[r.i + 1]
        x == ScaleModelInput(r.scheduler, r.denoised_output)
        prev_sample == PrevSample(x)
        due == /\ StepBoundary(r.i, Len(r.timesteps), r.num_warmup_steps,
                               r.scheduler.order)
               /\ CallbackDue(a.callback, r.i, a.callback_steps)
    IN  IF ~DenoiserShapesAgree(a.cond_len, a.noise_len)
        THEN [r EXCEPT !.pc = "raised", !.error = "AssertionError",
                       !.denoised_output = x,
                       !.scale_calls = @ + 1,
                       !.denoiser_calls = @ + 1]
        ELSE [r EXCEPT
                !.denoised_output = prev_sample,
                !.scale_calls = @ + 1,
                !.denoiser_calls = @ + 1,
                !.scheduler.step_calls = @ + 1,
                !.callbacks =
                    IF due
                    THEN Append(@, [index |-> r.i, timestep |-> t,
                                    num_timesteps |-> Len(r.timesteps),
                                    sample |-> prev_sample])
                    ELSE @,
                !.i = @ + 1]

\* line 461
ReturnRun(r) == [r EXCEPT !.pc = "done", !.ret = <<r.denoised_output>>]

\* the step of inference that run r is at
NextRun(a, slf, r) ==
    IF r.pc = "prepare" THEN PrepareRun(a, slf, r)
    ELSE IF r.pc = "loop" /\ r.i < Len(r.timesteps) THEN IterateRun(a, r)
    ELSE IF r.pc = "loop" THEN ReturnRun(r)
    ELSE r

RECURSIVE FinishRun(_, _, _)
FinishRun(a, slf, r) ==
    IF r.pc \in {"done", "raised"} THEN r
    ELSE FinishRun(a, slf, NextRun(a, slf, r))

\* inference(noise, cond, ...) from its first line to its return or raise
Inference(a, slf) == FinishRun(a, slf, EnterRun(a, slf))

\* ------------------------------------------------------------- the inputs

\* num_train_timesteps, num_max_timesteps and beta_schedule of the objects
\* built: beta_schedule as __init__ defaults it, and "linear"
Configs ==
    {<<8, None, DefaultBetaSchedule>>, <<8, <<0>>, DefaultBetaSchedule>>,
     <<8, <<3>>, DefaultBetaSchedule>>, <<8, <<3>>, "linear">>,
     <<8, <<8>>, DefaultBetaSchedule>>, <<8, <<9>>, DefaultBetaSchedule>>,
     <<DefaultNumTrainTimesteps, <<100>>, DefaultBetaSchedule>>,
     <<DefaultNumTrainTimesteps, <<580>>, DefaultBetaSchedule>>,
     <<DefaultNumTrainTimesteps, <<1000>>, DefaultBetaSchedule>>}

\* the largest num_train_timesteps // num_inference_steps of a call
MaxStride == 40

\* num_inference_steps: a divisor of num_train_timesteps, so that DDPM's
\* set_timesteps yields exactly that many entries
StepsChoices(num_train_timesteps) ==
    {n \in {1, 2, 4, 8, 25, 50} :
        /\ num_train_timesteps % n = 0
        /\ num_train_timesteps <= n * MaxStride}

\* strength: absent, negative, 0, 0.375, 0.5, 0.58, 1, above 1
StrengthChoices ==
    {None, <<-1, 8>>, <<0, 1>>, <<3, 8>>, <<1, 2>>, <<29, 50>>, <<1, 1>>,
     <<9, 8>>}

\* scheduler_type: 'ddpm', 'pndm', 'heundiscrete', and two that name nothing
SchedulerTypes ==
    {<<"d","d","p","m">>, <<"p","n","d","m">>,
     <<"h","e","u","n","d","i","s","c","r","e","t","e">>,
     <<"f","o","o">>, <<"D","D","P","M">>}

\* the calls made: PNDM's set_timesteps needs at least its four
\* Runge-Kutta timesteps
ArgSpace(slf) ==
    {a \in [num_inference_steps : StepsChoices(slf.num_train_timesteps),
            strength            : StrengthChoices,
            scheduler_type      : SchedulerTypes,
            ref_x               : BOOLEAN,
            callback            : BOOLEAN,
            callback_steps      : 1..MaxCallbackSteps,
            noise_len           : {NoiseLen},
            cond_len            : {NoiseLen, NoiseLen + 1}] :
        LookupScheduler(a.scheduler_type) = <<PNDMScheduler>>
            => a.num_inference_steps >= 4}

\* ------------------------------------------------------------ the actions

Init ==
    /\ self \in {NewGaussianDiffusion(c[1], DefaultBetaStart, DefaultBetaEnd,
                                      c[3], c[2]) : c \in Configs}
    /\ calls = 0
    /\ args = NoArgs
    /\ run = IdleRun

\* a call of inference: lines 404-420
Enter ==
    /\ run.pc = "idle"
    /\ calls < MaxCalls
    /\ \E a \in ArgSpace(self) :
          /\ args' = a
          /\ run' = EnterRun(a, self)
          /\ self' = SelfAfterEnter(self, a)
    /\ calls' = calls + 1

\* lines 422-444
Prepare ==
    /\ run.pc = "prepare"
    /\ run' = PrepareRun(args, self, run)
    /\ UNCHANGED <<self, calls, args>>

\* lines 445-459: one iteration
Iterate ==
    /\ run.pc = "loop"
    /\ run.i < Len(run.timesteps)
    /\ run' = IterateRun(args, run)
    /\ UNCHANGED <<self, calls, args>>

\* line 461
Return ==
    /\ run.pc = "loop"
    /\ run.i = Len(run.timesteps)
    /\ run' = ReturnRun(run)
    /\ UNCHANGED <<self, calls, args>>

\* the caller has the sample, or the exception: the call's locals are gone
Leave ==
    /\ run.pc \in {"done", "raised"}
    /\ run' = IdleRun
    /\ args' = NoArgs
    /\ UNCHANGED <<self, calls>>

Next == Enter \/ Prepare \/ Iterate \/ Return \/ Leave

Spec == Init /\ [][Next]_vars

\* ------------------------------------------------------------ properties

\* the index argument of the callback invocations of run r, in order
CallbackIndices(r) == [k \in 1..Len(r.callbacks) |-> r.callbacks[k].index]

\* the call has got past the scheduler lookup and set_timesteps
Prepared == run.pc \in {"loop", "done"} \/ run.error = "AssertionError"

\* the scheduler's sequence has exactly num_inference_steps entries
ExactLength == Len(run.scheduler.timesteps) = args.num_inference_steps

\* C1: with a scheduler of order 1 whose sequence has exactly N entries, no
\* truncation, a callback and callback_steps = 1, the callback has been
\* invoked once for each iteration made so far, with the indices 0, 1, ... in
\* increasing order, and so exactly N times, with 0 .. N-1, when the call
\* returns.
C1_CallbackEveryStep ==
    (/\ run.pc \in {"loop", "done"}
     /\ run.scheduler.order = 1
     /\ ExactLength
     /\ Len(run.timesteps) = args.num_inference_steps
     /\ args.callback
     /\ args.callback_steps = 1)
    => /\ CallbackIndices(run) = Range(run.i)
       /\ run.pc = "done" =>
             /\ Len(run.callbacks) = args.num_inference_steps
             /\ CallbackIndices(run) = Range(args.num_inference_steps)

C1_Witness ==
    /\ run.pc = "done"
    /\ run.scheduler.order = 1
    /\ args.num_inference_steps = 8
    /\ Len(run.timesteps) = 8
    /\ args.callback /\ args.callback_steps = 1
    /\ Len(run.callbacks) = 8

\* the strength in effect, as the specification words it: the explicit one
\* when it lies in [0, 1],
\* else num_max_timesteps / num_train_timesteps when that cap is configured
ClaimedStrength ==
    IF /\ args.strength # None
       /\ 0 <= args.strength[1]
       /\ args.strength[1] <= args.strength[2]
    THEN args.strength
    ELSE IF self.num_max_timesteps # None
         THEN <<self.num_max_timesteps[1], self.num_train_timesteps>>
         ELSE None

\* floor(N * s), capped at N: s the float of the strength in effect and
\* N * s their float product
ClaimedInitTimestep ==
    LET s == Float(ClaimedStrength[1], ClaimedStrength[2])
        q == PyInt(FloatTimes(args.num_inference_steps, s))
    IN  IF q < args.num_inference_steps THEN q ELSE args.num_inference_steps

\* floor(N * num / den) in exact arithmetic, capped at N
ExactInitTimestep ==
    LET q == (args.num_inference_steps * ClaimedStrength[1])
                 \div ClaimedStrength[2]
    IN  IF q < args.num_inference_steps THEN q ELSE args.num_inference_steps

\* N * num / den is a whole number
ExactProductWhole ==
    (args.num_inference_steps * ClaimedStrength[1]) % ClaimedStrength[2] = 0

\* C2: with ref_x, a strength in effect and a scheduler whose sequence has
\* exactly N entries, the timesteps run are the last init_timestep =
\* min(floor(N * s), N) entries of the sequence, from t_start = N -
\* init_timestep on, num_inference_steps becomes init_timestep, and the call
\* returns after exactly init_timestep iterations.  N * s is the product of
\* floats: it is the floor of the exact N * num / den whenever that is no
\* whole number, and that whole number or one less when it is one (50 * 0.58
\* is 28.999999999999996, so 28 of 50 timesteps are run).
C2_StrengthTruncation ==
    (/\ Prepared
     /\ args.ref_x
     /\ ClaimedStrength # None
     /\ ExactLength)
    => LET n    == args.num_inference_steps
           init == ClaimedInitTimestep
       IN  /\ run.init_timestep = <<init>>
           /\ ~ExactProductWhole => init = ExactInitTimestep
           /\ init \in {ExactInitTimestep, ExactInitTimestep - 1}
                  \cup {n}
           /\ run.t_start = <<n - init>>
           /\ Len(run.timesteps) = init
           /\ \A k \in 1..init :
                 run.timesteps[k] = run.scheduler.timesteps[n - init + k]
           /\ run.num_inference_steps = init
           /\ run.i <= init
           /\ run.pc = "done" => run.i = init /\ run.denoiser_calls = init

\* ddpm, 50 steps at strength 0.58: the last 28 timesteps are run
C2_Witness ==
    /\ run.pc = "done"
    /\ args.ref_x
    /\ args.strength = <<29, 50>>
    /\ args.num_inference_steps = 50
    /\ ExactLength
    /\ run.init_timestep = <<28>>
    /\ run.t_start = <<22>>
    /\ Len(run.timesteps) = 28
    /\ run.i = 28

\* what the caller sees of a call, and the work the call did
Outcome(r) ==
    [error           |-> r.error,
     ret             |-> r.ret,
     callbacks       |-> r.callbacks,
     iterations      |-> r.i,
     timesteps       |-> r.timesteps,
     add_noise_calls |-> r.add_noise_calls,
     scale_calls     |-> r.scale_calls,
     denoiser_calls  |-> r.denoiser_calls,
     step_calls      |-> r.scheduler.step_calls]

\* C3: with ref_x, a strength below 0 or above 1 raises nothing of its own
\* and the call ends exactly as the same call with strength absent ends: the
\* fallback num_max_timesteps / num_train_timesteps is the strength when the
\* cap is configured, else nothing is truncated and the loop starts from
\* noise.
C3_OutOfRangeStrengthIsAbsent ==
    (/\ run.pc \notin {"idle", "prepare"}
     /\ args.ref_x
     /\ args.strength # None
     /\ (args.strength[1] < 0 \/ args.strength[1] > args.strength[2]))
    => /\ (Prepared /\ self.num_max_timesteps # None) =>
             run.strength =
                 <<self.num_max_timesteps[1], self.num_train_timesteps>>
       /\ (Prepared /\ self.num_max_timesteps = None) =>
             /\ run.strength = None
             /\ run.timesteps = run.scheduler.timesteps
             /\ run.num_inference_steps = args.num_inference_steps
             /\ run.noisy_input = Noise
             /\ run.add_noise_calls = 0
       /\ run.pc \in {"done", "raised"} =>
             Outcome(run) =
                 Outcome(Inference([args EXCEPT !.strength = None], self))

C3_Witness ==
    /\ run.pc = "done"
    /\ args.ref_x
    /\ args.strength = <<9, 8>>
    /\ self.num_max_timesteps = <<3>>
    /\ args.num_inference_steps = 8
    /\ Len(run.timesteps) = 3
    /\ run.i = 3

\* C4: with a callback, callback_steps = K has the callback invoked on every
\* K-th step boundary: of the E iterations that are step boundaries (the last
\* index, or (i+1) > num_warmup_steps and (i+1) mod order = 0), at least
\* floor(E / K) have invoked it when the call returns.
C4_EveryKthBoundary ==
    (run.pc = "done" /\ args.callback)
    => LET L == Len(run.timesteps)
           E == Cardinality(
                  {i \in 0..(L - 1) :
                      \/ i = L - 1
                      \/ /\ (i + 1) > run.num_warmup_steps
                         /\ (i + 1) % run.scheduler.order = 0})
       IN  Len(run.callbacks) >= E \div args.callback_steps

\* C5 as stated: a call whose cond and sample differ in their trailing
\* dimension never returns, and has set no timesteps, noised nothing and
\* scaled nothing when it fails.
C5_ShapeErrorBeforeAnyWork ==
    (run.pc # "idle" /\ args.cond_len # args.noise_len)
    => /\ run.pc # "done"
       /\ run.scheduler.set_calls = 0
       /\ run.add_noise_calls = 0
       /\ run.scale_calls = 0
       /\ run.scheduler.step_calls = 0
       /\ run.callbacks = <<>>

\* C5: a call whose cond and sample differ in their trailing dimension fails
\* in the denoiser, at the first iteration of the loop: after set_timesteps,
\* the warm-start add_noise and the first scale_model_input, before any
\* scheduler step and any callback.  With no timestep to run the denoiser is
\* never evaluated and the call returns; with an unknown scheduler_type the
\* lookup's ValueError comes first.
C5_ShapeErrorAtFirstDenoiserCall ==
    (run.pc # "idle" /\ args.cond_len # args.noise_len)
    => /\ run.scheduler.step_calls = 0
       /\ run.callbacks = <<>>
       /\ run.i = 0
       /\ run.error = "AssertionError" =>
             /\ run.pc = "raised"
             /\ run.scheduler.set_calls = 1
             /\ Len(run.timesteps) > 0
             /\ run.add_noise_calls =
                    (IF args.ref_x /\ ClaimedStrength # None THEN 1 ELSE 0)
             /\ run.scale_calls = 1
             /\ run.denoiser_calls = 1
       /\ run.pc = "raised" =>
             \/ run.error = "AssertionError"
             \/ run.error = "ValueError" /\ run.scheduler.set_calls = 0
       /\ run.pc = "done" =>
             /\ Len(run.timesteps) = 0
             /\ run.denoiser_calls = 0
             /\ run.error = ""
       /\ (run.pc = "loop" /\ Len(run.timesteps) > 0) =>
             run.denoiser_calls = 0

C5_Witness ==
    /\ run.pc = "raised"
    /\ run.error = "AssertionError"
    /\ args.cond_len # args.noise_len
    /\ run.add_noise_calls = 1
    /\ run.scale_calls = 1
    /\ run.scheduler.set_calls = 1

\* the scheduler_type values that name a class of ppdiffusers.schedulers
KnownSchedulerTypes ==
    {<<"d","d","p","m">>, <<"p","n","d","m">>,
     <<"h","e","u","n","d","i","s","c","r","e","t","e">>}

\* C6: a call whose scheduler_type names no scheduler has raised ValueError
\* as soon as it is made: no scheduler was built, set_timesteps, add_noise,
\* the denoiser, the scheduler step and the callback were never called, and
\* no sample is returned.
C6_UnknownSchedulerRaisesFirst ==
    (run.pc # "idle" /\ args.scheduler_type \notin KnownSchedulerTypes)
    => /\ run.pc = "raised"
       /\ run.error = "ValueError"
       /\ run.scheduler = NoScheduler
       /\ run.scheduler.set_calls = 0
       /\ run.add_noise_calls = 0
       /\ run.scale_calls = 0
       /\ run.denoiser_calls = 0
       /\ run.scheduler.step_calls = 0
       /\ run.callbacks = <<>>
       /\ run.ret = None

C6_Witness ==
    /\ run.pc = "raised"
    /\ run.error = "ValueError"
    /\ args.scheduler_type = <<"D","D","P","M">>
    /\ args.callback
    /\ calls = 2

\* C7 as stated: with ref_x and strength = 0, whatever the scheduler, no
\* timestep is left to run and the call returns the warm-start noising
\* without an iteration.
C7_ZeroStrengthRunsNothing ==
    (Prepared /\ args.ref_x /\ args.strength = <<0, 1>>)
    => /\ run.init_timestep = <<0>>
       /\ run.t_start = <<args.num_inference_steps>>
       /\ run.timesteps = <<>>
       /\ run.i = 0
       /\ run.denoiser_calls = 0

\* C7: with ref_x, strength = 0 and a scheduler whose sequence has exactly
\* num_inference_steps entries: init_timestep = 0, t_start =
\* num_inference_steps, no timestep is left, the loop makes no iteration
\* (no scale_model_input, denoiser, scheduler step or callback, whatever cond
\* is), and the sample returned is the one add_noise of ref_x, made on the
\* empty slice timesteps[:1].
C7_ZeroStrengthExactLength ==
    (Prepared /\ args.ref_x /\ args.strength = <<0, 1>> /\ ExactLength)
    => /\ run.init_timestep = <<0>>
       /\ run.t_start = <<args.num_inference_steps>>
       /\ run.num_inference_steps = 0
       /\ run.timesteps = <<>>
       /\ run.i = 0
       /\ run.error = ""
       /\ run.scale_calls = 0
       /\ run.denoiser_calls = 0
       /\ run.scheduler.step_calls = 0
       /\ run.callbacks = <<>>
       /\ run.add_noise_calls = 1
       /\ run.noisy_input = AddNoise(<<>>)
       /\ run.pc = "done" => run.ret = <<AddNoise(<<>>)>>

C7_Witness ==
    /\ run.pc = "done"
    /\ args.ref_x
    /\ args.strength = <<0, 1>>
    /\ args.num_inference_steps = 8
    /\ ExactLength
    /\ args.callback
    /\ run.ret = <<AddNoise(<<>>)>>

\* C8: without ref_x the loop starts from noise as passed and runs the whole
\* sequence of the scheduler, num_inference_steps as passed, whatever
\* strength and num_max_timesteps are; add_noise is never called.
C8_NoRefRunsEverything ==
    (run.pc \in {"loop", "done"} /\ ~args.ref_x)
    => /\ run.noisy_input = Noise
       /\ run.add_noise_calls = 0
       /\ run.timesteps = run.scheduler.timesteps
       /\ Len(run.timesteps) =
             SchedulerLen(run.scheduler.cls, args.num_inference_steps)
       /\ run.num_inference_steps = args.num_inference_steps
       /\ run.init_timestep = None /\ run.t_start = None
       /\ run.i = 0 => run.denoised_output = Noise
       /\ run.pc = "done" =>
             /\ run.i = Len(run.scheduler.timesteps)
             /\ run.ret[1].init = "noise"
             /\ run.ret[1].stepped = Len(run.scheduler.timesteps)

C8_Witness ==
    /\ run.pc = "done"
    /\ ~args.ref_x
    /\ args.strength = <<3, 8>>
    /\ self.num_max_timesteps = <<3>>
    /\ args.num_inference_steps = 8
    /\ run.i = 8

\* what C9 says of one state
C9_OwnScheduler ==
    /\ self.noise_scheduler =
          NewScheduler(DDPMScheduler, self.num_train_timesteps,
                       self.beta_start, self.beta_end, self.beta_schedule)
    /\ (run.pc \in {"prepare", "loop", "done"}
            \/ run.error = "AssertionError") =>
          /\ <<run.scheduler.cls>> = LookupScheduler(args.scheduler_type)
          /\ run.scheduler.num_train_timesteps = self.num_train_timesteps
          /\ run.scheduler.beta_start = self.beta_start
          /\ run.scheduler.beta_end = self.beta_end
          /\ run.scheduler.beta_schedule = self.beta_schedule
          /\ run.scheduler.set_calls = 1
          /\ run.scheduler.timesteps =
                Range(SchedulerLen(run.scheduler.cls,
                                   args.num_inference_steps))
          /\ run.scheduler.step_calls = run.i
    /\ run.pc \in {"done", "raised"} =>
          LET alone == Inference(args, self)
          IN  /\ run.i = alone.i
              /\ CallbackIndices(run) = CallbackIndices(alone)
              /\ run.error = alone.error

\* C9: no step of an inference call changes the GaussianDiffusion object
\* (its parameters and its noise_scheduler stay as __init__ left them), and
\* every call steps a scheduler of its own: built for this call's
\* scheduler_type, set_timesteps called on it once, with this call's
\* num_inference_steps, its steps counted from zero.  The iterations and the
\* callback indices of a call, whatever calls came before, are those of the
\* same call made alone on the object as constructed.
C9_CallOwnsItsStepping ==
    [](C9_OwnScheduler) /\ [][self' = self]_vars

C9_Witness ==
    /\ calls = 2
    /\ run.pc = "done"
    /\ run.scheduler.cls = PNDMScheduler
    /\ args.ref_x
    /\ Len(run.callbacks) > 0
    /\ run.scheduler.set_calls = 1
    /\ self.beta_schedule = "linear"
    /\ run.scheduler.beta_schedule = "linear"
    /\ self.noise_scheduler.set_calls = 0

\* C10: with a scheduler of order 1, callback_steps = 1, L timesteps to run
\* and n = num_inference_steps after the truncation, L >= n >= 1:
\* num_warmup_steps = L - n, the first L - n iterations invoke no callback,
\* each later one does (indices L-n .. L-1), always with num_timesteps = L,
\* so that the first index plus the number of invocations is L at the return.
C10_CallbacksAfterWarmup ==
    LET L == Len(run.timesteps)
        n == run.num_inference_steps
    IN  (/\ run.pc \in {"loop", "done"}
         /\ run.scheduler.order = 1
         /\ args.callback
         /\ args.callback_steps = 1
         /\ L >= n
         /\ n >= 1)
        => /\ run.num_warmup_steps = L - n
           /\ run.i <= L - n => run.callbacks = <<>>
           /\ run.i > L - n =>
                 CallbackIndices(run) =
                     [k \in 1..(run.i - (L - n)) |-> L - n + k - 1]
           /\ \A k \in 1..Len(run.callbacks) :
                 run.callbacks[k].num_timesteps = L
           /\ run.pc = "done" =>
                 /\ Len(run.callbacks) = n
                 /\ run.callbacks[1].index + Len(run.callbacks) = L

\* the docstring's last example: pndm, 50 steps, num_max_timesteps = 100 of
\* 1000, from ref_x: 14 timesteps, five steps
C10_Witness ==
    /\ run.pc = "done"
    /\ self.num_train_timesteps = 1000
    /\ self.num_max_timesteps = <<100>>
    /\ args.scheduler_type = <<"p","n","d","m">>
    /\ args.num_inference_steps = 50
    /\ args.ref_x /\ args.strength = None
    /\ args.callback /\ args.callback_steps = 1
    /\ Len(run.timesteps) = 14
    /\ run.num_inference_steps = 5
    /\ run.callbacks[1].index = 9
    /\ Len(run.callbacks) = 5

\* C11: with a callback, callback_steps = 1 and at least one timestep to
\* run, whatever the scheduler's order and the truncation: the callback
\* indices increase strictly and stay below the iterations made; once the
\* last iteration is made the latest invocation has the index
\* len(timesteps) - 1 and num_timesteps = len(timesteps), and the sample it
\* was passed is the loop's current sample, which is the sample returned.
C11_FinalCallbackHasReturnedSample ==
    LET L == Len(run.timesteps)
        m == Len(run.callbacks)
    IN  (/\ run.pc \in {"loop", "done"}
         /\ args.callback
         /\ args.callback_steps = 1
         /\ L > 0)
        => /\ \A k \in 1..m : run.callbacks[k].index < run.i
           /\ \A k \in 1..(m - 1) :
                 run.callbacks[k].index < run.callbacks[k + 1].index
           /\ run.i = L =>
                 /\ m > 0
                 /\ run.callbacks[m].index = L - 1
                 /\ run.callbacks[m].timestep = run.timesteps[L]
                 /\ run.callbacks[m].num_timesteps = L
                 /\ run.callbacks[m].sample = run.denoised_output
           /\ run.pc = "done" =>
                 /\ run.i = L
                 /\ run.ret = <<run.callbacks[m].sample>>

\* heun (order 2) from ref_x at strength 1/2: 5 of 7 timesteps are run
C11_Witness ==
    /\ run.pc = "done"
    /\ run.scheduler.order = 2
    /\ args.num_inference_steps = 4
    /\ args.ref_x /\ args.strength = <<1, 2>>
    /\ args.callback /\ args.callback_steps = 1
    /\ Len(run.timesteps) = 5
    /\ run.callbacks[Len(run.callbacks)].index = 4
    /\ run.ret = <<run.callbacks[Len(run.callbacks)].sample>>

=============================================================================
